---- MODULE Spec2Model ----
(***************************************************************************)
(* A model of SecondaryValue (src/SecondaryValue/SecondaryValue.py): the   *)
(* evaluation of a formula over named bindings, the resolution of          *)
(* dependencies (other SecondaryValue instances) and the gaussian error    *)
(* propagation.  A call is a walk of the Python call stack: one frame per  *)
(* __call__, one action per step of it.                                    *)
(*                                                                         *)
(* Numbers.  Central values are integers.  An uncertainty is an integer    *)
(* (as given by the caller) or the square root that np.sqrt returns: the   *)
(* root of a perfect square is that integer, any other root r is kept      *)
(* exactly as Root(r).  Floating point rounding is not modelled.  The      *)
(* derivative caches (_derivatives, lru_cache) hold pure functions of the  *)
(* expression and never change a result; they are not part of the state.   *)
(***************************************************************************)
EXTENDS Integers, Sequences, FiniteSets, TLC

\* Bounds of the model: central values 0..MaxVal, uncertainties -1..MaxErr,
\* arrays of 2..MaxLen samples.
MaxVal == 1
MaxErr == 1
MaxLen == 3

Names == {"a", "b", "c", "x", "y", "u"}

-----------------------------------------------------------------------------
(* Python values                                                           *)

Num(n) == [k |-> "num", n |-> n]
Root(r) == [k |-> "root", n |-> r]
\* a float the model does not track: an expression evaluated at a Root
Float == [k |-> "float"]
\* tuple, list and numpy array: all are Iterable, have len() and v[i]
Tup(s) == [k |-> "seq", t |-> "tuple", s |-> s]
List(s) == [k |-> "seq", t |-> "list", s |-> s]
Array(s) == [k |-> "seq", t |-> "ndarray", s |-> s]
Dict(d) == [k |-> "dict", d |-> d]
Exc(type) == [k |-> "exc", type |-> type, missing |-> {}]
RuntimeError(missing) ==
    [k |-> "exc", type |-> "RuntimeError", missing |-> missing]
None == [k |-> "none"]
EmptyDict == [key \in {} |-> None]

IsExc(v) == v.k = "exc"
\* isinstance(val, Iterable)
IsIterable(v) == v.k \in {"seq", "dict"}
\* len(val)
PyLen(v) == IF v.k = "seq" THEN Len(v.s) ELSE Cardinality(DOMAIN v.d)
\* val[index], index counted from 0; a dict has no integer key
Item(v, index) ==
    IF v.k = "dict" THEN Exc("KeyError")
    ELSE IF index >= Len(v.s) THEN Exc("IndexError")
    ELSE v.s[index + 1]

Max(S) == CHOOSE m \in S : \A n \in S : n <= m
Min(S) == CHOOSE m \in S : \A n \in S : m <= n

\* np.sqrt of a non-negative integer
Sqrt(r) == IF \E n \in 0..r : n * n = r
           THEN Num(CHOOSE n \in 0..r : n * n = r)
           ELSE Root(r)
\* the square of a number
Square(v) == IF v.k = "num" THEN v.n * v.n ELSE v.n
\* err > 0
Positive(v) == v.n > 0

RECURSIVE Sum(_, _)
Sum(f, S) == IF S = {} THEN 0
             ELSE LET key == CHOOSE key \in S : TRUE
                  IN f[key] + Sum(f, S \ {key})

-----------------------------------------------------------------------------
(* The symbolic backend (sympy): expressions, free symbols, evaluation,    *)
(* differentiation                                                         *)

Var(name) == [op |-> "var", name |-> name]
Const(c) == [op |-> "const", c |-> c]
Add(l, r) == [op |-> "add", l |-> l, r |-> r]
Mul(l, r) == [op |-> "mul", l |-> l, r |-> r]

RECURSIVE free_symbols(_)
free_symbols(e) ==
    CASE e.op = "var" -> {e.name}
      [] e.op = "const" -> {}
      [] OTHER -> free_symbols(e.l) \cup free_symbols(e.r)

\* the lambdified expression at integer arguments
RECURSIVE Eval(_, _)
Eval(e, env) ==
    CASE e.op = "var" -> env[e.name].n
      [] e.op = "const" -> e.c
      [] e.op = "add" -> Eval(e.l, env) + Eval(e.r, env)
      [] OTHER -> Eval(e.l, env) * Eval(e.r, env)

RECURSIVE diff(_, _)
diff(e, var) ==
    CASE e.op = "var" -> IF e.name = var THEN Const(1) ELSE Const(0)
      [] e.op = "const" -> Const(0)
      [] e.op = "add" -> Add(diff(e.l, var), diff(e.r, var))
      [] OTHER -> Add(Mul(diff(e.l, var), e.r), Mul(e.l, diff(e.r, var)))

\* a lambdified expression called with **values
Lambda(e, values) ==
    IF \E name \in free_symbols(e) : values[name].k # "num" THEN Float
    ELSE Num(Eval(e, values))

-----------------------------------------------------------------------------
(* The SecondaryValue instances of the model                               *)

\* P, X, Y and D are the fixtures of test_secondaryvalue.py; Z chains a
\* dependency that has a dependency, W has two dependencies and declares a
\* third for a name that is no symbol of it, E has a dependency and defaults.
Quantities == {"P", "X", "Y", "D", "Z", "W", "E"}

expr(q) ==
    CASE q = "P" -> Add(Mul(Var("a"), Var("b")), Var("c"))
      [] q = "X" -> Var("b")
      [] q = "Y" -> Add(Var("a"), Var("x"))
      [] q = "D" -> Add(Var("a"), Var("b"))
      [] q = "Z" -> Mul(Var("c"), Var("y"))
      [] q = "W" -> Add(Var("x"), Var("y"))
      [] OTHER -> Add(Var("a"), Var("x"))

\* the dependencies argument, in declaration order
dependencies(q) ==
    CASE q = "Y" -> << [name |-> "x", sec_val |-> "X"] >>
      [] q = "Z" -> << [name |-> "y", sec_val |-> "Y"] >>
      [] q = "W" -> << [name |-> "x", sec_val |-> "X"],
                       [name |-> "y", sec_val |-> "Y"],
                       [name |-> "u", sec_val |-> "P"] >>
      [] q = "E" -> << [name |-> "x", sec_val |-> "X"] >>
      [] OTHER -> << >>

\* the defaults argument
defaults(q) ==
    CASE q = "D" -> [name \in {"a"} |-> Tup(<<Num(1), Num(2)>>)]
      [] q = "E" -> [name \in {"a", "x"} |->
                        IF name = "a" THEN Tup(<<Num(1), Num(2)>>) ELSE Num(5)]
      [] OTHER -> EmptyDict

\* self._symbols
symbols(q) == free_symbols(expr(q))

DeclaredHere(dep, syms) == dep.name \in syms

\* self._deps: the declared dependencies whose name is a symbol
deps(q) == LET Keep(dep) == DeclaredHere(dep, symbols(q))
           IN SelectSeq(dependencies(q), Keep)

DepNames(q) == {deps(q)[i].name : i \in 1..Len(deps(q))}

-----------------------------------------------------------------------------
(* The steps of a call that do not call another instance                   *)

\* a dependency is never looked at
NeverInKwargs(name, kwargs) == FALSE

\* _calc_deps: name in kwargs
NameInKwargs(name, kwargs) == name \in DOMAIN kwargs

\* kwargs[name] = value
Bind(kwargs, name, value) ==
    [key \in DOMAIN kwargs \cup {name} |->
        IF key = name THEN value ELSE kwargs[key]]

\* the defaults replace what is bound
override_defaults(q, kwargs) ==
    [name \in DOMAIN kwargs \cup DOMAIN defaults(q) |->
        IF name \in DOMAIN defaults(q) THEN defaults(q)[name] ELSE kwargs[name]]

\* _inject_defaults
inject_defaults(q, kwargs) ==
    [name \in DOMAIN kwargs \cup DOMAIN defaults(q) |->
        IF name \in DOMAIN kwargs THEN kwargs[name] ELSE defaults(q)[name]]

\* _process_args: self._symbols - set(kwargs.keys())
missing_symbols(q, kwargs) == symbols(q) \ DOMAIN kwargs

\* nothing is filtered out
keep_unneeded(q, kwargs) == kwargs

\* _process_args: filter out unneeded
filter_unneeded(q, kwargs) ==
    [var \in DOMAIN kwargs \cap symbols(q) |-> kwargs[var]]

\* _process_args: max_uncertainties
max_uncertainties(kwargs) ==
    Max({PyLen(kwargs[var]) : var \in {v \in DOMAIN kwargs : IsIterable(kwargs[v])}}
        \cup {0})

\* _process_args: errors, one dict for each i in range(1, max_uncertainties)
process_errors(kwargs) ==
    [i \in 1..(max_uncertainties(kwargs) - 1) |->
        [var \in {v \in DOMAIN kwargs :
                     IsIterable(kwargs[v]) /\ PyLen(kwargs[v]) > i} |->
            Item(kwargs[var], i)]]

\* _process_args: values
process_values(kwargs) ==
    [var \in DOMAIN kwargs |->
        IF IsIterable(kwargs[var]) THEN Item(kwargs[var], 0) ELSE kwargs[var]]

\* filter_out_vecotrized
filter_out_vecotrized(dictionary) ==
    [scalar |-> [key \in {n \in DOMAIN dictionary : ~IsIterable(dictionary[n])} |->
                    dictionary[key]],
     vector |-> [key \in {n \in DOMAIN dictionary : IsIterable(dictionary[n])} |->
                    dictionary[key]]]

\* join_row; val[index] raises for the first vector that has no such item
join_row(scalar, vector, index) ==
    LET bad == {key \in DOMAIN vector : IsExc(Item(vector[key], index))}
    IN IF bad # {}
       THEN Item(vector[CHOOSE key \in bad : TRUE], index)
       ELSE Dict([key \in DOMAIN scalar \cup DOMAIN vector |->
                     IF key \in DOMAIN vector THEN Item(vector[key], index)
                     ELSE scalar[key]])

\* the longest of the vectors, 0 without any
MaxLength(vectors) ==
    Max({PyLen(vectors[key]) : key \in DOMAIN vectors} \cup {0})

\* the first exception of rows 0..length-1, None when no row raises
FirstExc(rows, length) ==
    LET bad == {i \in 0..(length - 1) : IsExc(rows[i])}
    IN IF bad = {} THEN None ELSE rows[Min(bad)]

\* _calculate_central_value; an element of the numpy array must be a number
calculate_central_value(q, scalar_values, vector_values) ==
    LET value_length == MaxLength(vector_values)
        current_values == [i \in 0..(value_length - 1) |->
                              join_row(scalar_values, vector_values, i)]
        rows == [i \in 0..(value_length - 1) |->
                    IF IsExc(current_values[i]) THEN current_values[i]
                    ELSE IF \E key \in DOMAIN current_values[i].d :
                                IsIterable(current_values[i].d[key])
                         THEN Exc("ValueError")
                         ELSE Lambda(expr(q), current_values[i].d)]
    IN IF DOMAIN vector_values # {}
       THEN IF FirstExc(rows, value_length) # None
            THEN FirstExc(rows, value_length)
            ELSE Array([i \in 1..value_length |-> rows[i - 1]])
       ELSE Lambda(expr(q), scalar_values)

\* the expression is lambdified, not its derivative
get_undifferentiated(q, args) == [var \in args |-> expr(q)]

\* _get_derivatives: the derivative of the expression for each variable
get_derivatives(q, args) == [var \in args |-> diff(expr(q), var)]

\* one term of the propagation, squared: (derivs[var](**values) * err) ** 2
TermSquared(deriv, values, err) ==
    Eval(deriv, values) * Eval(deriv, values) * Square(err)

\* the sum of the squares, np.sqrt left out
calculate_without_sqrt(values, derivs, error) ==
    LET used == {var \in DOMAIN error : Positive(error[var])}
        term == [var \in used |-> TermSquared(derivs[var], values, error[var])]
    IN Num(Sum(term, used))

\* _calculate_gauss_propagation
calculate_gauss_propagation(values, derivs, error) ==
    LET used == {var \in DOMAIN error : Positive(error[var])}
        term == [var \in used |-> TermSquared(derivs[var], values, error[var])]
    IN IF \E var \in used : \E name \in free_symbols(derivs[var]) :
             values[name].k # "num"
       THEN Float
       ELSE Sqrt(Sum(term, used))

\* _calculate_errors: the length of one error series
series_length(vector_values, vector_errors) ==
    Max({MaxLength(vector_values), MaxLength(vector_errors)})

\* one error series, of the first row only
calculate_first_row(derivs, error, vector_values, scalar_values) ==
    LET scalar_errors == filter_out_vecotrized(error).scalar
        vector_errors == filter_out_vecotrized(error).vector
        length == series_length(vector_values, vector_errors)
        current_values == join_row(scalar_values, vector_values, 0)
        current_errors == join_row(scalar_errors, vector_errors, 0)
    IN IF length = 0
       THEN calculate_gauss_propagation(scalar_values, derivs, error)
       ELSE IF IsExc(current_values) THEN current_values
       ELSE IF IsExc(current_errors) THEN current_errors
       ELSE calculate_gauss_propagation(current_values.d, derivs,
                                        current_errors.d)

\* _calculate_errors: one error series
calculate_series(derivs, error, vector_values, scalar_values) ==
    LET scalar_errors == filter_out_vecotrized(error).scalar
        vector_errors == filter_out_vecotrized(error).vector
        length == series_length(vector_values, vector_errors)
        rows == [i \in 0..(length - 1) |->
                    LET current_values == join_row(scalar_values, vector_values, i)
                        current_errors == join_row(scalar_errors, vector_errors, i)
                    IN IF IsExc(current_values) THEN current_values
                       ELSE IF IsExc(current_errors) THEN current_errors
                       ELSE calculate_gauss_propagation(current_values.d, derivs,
                                                        current_errors.d)]
    IN IF length = 0
       THEN calculate_gauss_propagation(scalar_values, derivs, error)
       ELSE IF FirstExc(rows, length) # None
            THEN FirstExc(rows, length)
            ELSE Array([i \in 1..length |-> rows[i - 1]])

\* _calculate_errors: the list of terms, or the exception of the first
\* series that raises
calculate_errors(q, errors, vector_values, scalar_values) ==
    LET derivs == get_derivatives(q, DOMAIN errors[1])
        terms == [j \in 1..Len(errors) |->
                     calculate_series(derivs, errors[j], vector_values,
                                      scalar_values)]
        raised == FirstExc([i \in 0..(Len(errors) - 1) |-> terms[i + 1]],
                           Len(errors))
    IN IF raised # None THEN raised ELSE List(terms)

\* __call__ after _process_args has filtered kwargs: the value returned, or
\* the exception raised
evaluate(q, kwargs, dep_values) ==
    LET errors == process_errors(kwargs)
        values == process_values(kwargs)
        scalar_values == filter_out_vecotrized(values).scalar
        vector_values == filter_out_vecotrized(values).vector
        central_value == calculate_central_value(q, scalar_values, vector_values)
        terms == calculate_errors(q, errors, vector_values, scalar_values)
        result == Tup(<<central_value>> \o terms.s)
    IN IF IsExc(central_value) THEN central_value
       ELSE IF errors = << >> THEN central_value
       ELSE IF IsExc(terms) THEN terms
       ELSE IF DOMAIN dep_values # {}
            THEN Tup(<<result, Dict(dep_values)>>)
            ELSE result

-----------------------------------------------------------------------------
(* The bindings a caller passes                                            *)

Nums == {Num(n) : n \in 0..MaxVal}
\* (central, error)
Uncertain == {Tup(<<Num(c), Num(e)>>) : c \in 0..MaxVal, e \in (0 - 1)..MaxErr}
ScalarInputs == Nums \cup Uncertain

\* arrays of samples: 1, 2, .., L and 2, 1
Up(L) == List([i \in 1..L |-> Num(i)])
Down(L) == List([i \in 1..L |-> Num(L + 1 - i)])
Ups == {Up(L) : L \in 2..MaxLen}
Arrays == Ups \cup {Down(2)}
\* a number; (array,); (array, error); (array, array of errors);
\* (central, array of errors); (central, error_1, error_2)
VectorInputs ==
    {Num(1), Tup(<<Num(1), Num(1), Num(2)>>)}
    \cup {Tup(<<A>>) : A \in Arrays}
    \cup {Tup(<<A, Num(1)>>) : A \in Arrays}
    \cup {Tup(<<A, B>>) : A \in Arrays, B \in Ups}
    \cup {Tup(<<Num(1), B>>) : B \in Ups}

\* a binding for a name that is a symbol of no instance
Extra == Tup(<<Num(1), Num(1), Num(1)>>)

\* a binding given directly for the name of a dependency, or for c of Z
DirectInputs == {Num(MaxVal), Tup(<<Num(MaxVal), Num(MaxErr)>>)}

ScalarNames(q) ==
    CASE q = "P" -> {"a", "b", "c"}
      [] q = "X" -> {"b"}
      [] OTHER -> {"a", "b"}

DirectNames(q) ==
    CASE q \in {"Y", "E"} -> {"x"}
      [] q = "Z" -> {"c"}
      [] OTHER -> {}

VectorNames(q) == IF q = "X" THEN {"b"} ELSE {"a", "b"}

\* each name is bound or not
ScalarBindings(q) ==
    {[name \in DOMAIN f \cup DOMAIN g |->
         IF name \in DOMAIN f THEN f[name] ELSE g[name]] :
     f \in UNION {[S -> ScalarInputs] : S \in SUBSET ScalarNames(q)},
     g \in UNION {[S -> DirectInputs] : S \in SUBSET DirectNames(q)}}

\* the vector names are bound or not, c (where a symbol) is bound to 1
VectorBindings(q) ==
    IF q \notin {"P", "X", "Y", "Z"} THEN {}
    ELSE {[name \in DOMAIN f \cup ({"c"} \cap symbols(q)) |->
              IF name \in DOMAIN f THEN f[name] ELSE Num(1)] :
          f \in UNION {[S -> VectorInputs] : S \in SUBSET VectorNames(q)}}

Bindings(q) ==
    ScalarBindings(q) \cup VectorBindings(q)
    \cup (IF q = "X"
          THEN {Bind(f, "u", Extra) : f \in ScalarBindings(q)} ELSE {})
    \cup (IF q = "P" THEN {[name \in {"u"} |-> Num(1)]} ELSE {})

-----------------------------------------------------------------------------
(* The state: the Python call stack                                        *)

VARIABLES
    stack,      \* the frames of __call__, the running one last
    outcome,    \* how the caller's call ended
    call,       \* the caller's call: the instance and its keyword arguments
    trace       \* history: the calls of dependencies, in order; the i-th
                \* enters frame i + 1

vars == <<stack, outcome, call, trace>>

\* a frame of __call__: args are the keyword arguments it was called with,
\* kwargs and calc_deps the locals of _calc_deps and _process_args, i the
\* position of the loop over self._deps; id numbers the frames of one call
\* of the caller in the order they are entered
Frame(id, q, kwargs) ==
    [id |-> id, q |-> q, args |-> kwargs, kwargs |-> kwargs, i |-> 1,
     calc_deps |-> EmptyDict, pc |-> "deps"]

NoOutcome == [kind |-> "none", value |-> None, frame |-> None, raiser |-> None]

top == stack[Len(stack)]
Running == stack # << >>
SetTop(frame) == [stack EXCEPT ![Len(stack)] = frame]

Init ==
    /\ stack = << >>
    /\ outcome = NoOutcome
    /\ call = None
    /\ trace = << >>

\* the caller calls an instance: __call__(**kwargs)
Call(q, kwargs) ==
    /\ ~Running
    /\ outcome = NoOutcome
    /\ stack' = << Frame(1, q, kwargs) >>
    /\ call' = [q |-> q, kwargs |-> kwargs]
    /\ UNCHANGED <<outcome, trace>>

\* the caller has the value or the exception of its call; the instances
\* keep nothing of it
Forget ==
    /\ ~Running
    /\ outcome # NoOutcome
    /\ outcome' = NoOutcome
    /\ call' = None
    /\ trace' = << >>
    /\ UNCHANGED stack

\* _calc_deps: the dependency's name is bound, continue
SkipDep ==
    /\ Running
    /\ top.pc = "deps"
    /\ top.i <= Len(deps(top.q))
    /\ NameInKwargs(deps(top.q)[top.i].name, top.kwargs)
    /\ stack' = SetTop([top EXCEPT !.i = @ + 1])
    /\ UNCHANGED <<outcome, call, trace>>

\* _calc_deps: sec_val(**kwargs)
CallDep ==
    /\ Running
    /\ top.pc = "deps"
    /\ top.i <= Len(deps(top.q))
    /\ ~NameInKwargs(deps(top.q)[top.i].name, top.kwargs)
    /\ stack' = Append(stack, Frame(Len(trace) + 2, deps(top.q)[top.i].sec_val,
                                   top.kwargs))
    /\ trace' = Append(trace, [caller |-> top.id,
                               name |-> deps(top.q)[top.i].name,
                               sec_val |-> deps(top.q)[top.i].sec_val,
                               kwargs |-> top.kwargs])
    /\ UNCHANGED <<outcome, call>>

\* _calc_deps returns, _inject_defaults
InjectDefaults ==
    /\ Running
    /\ top.pc = "deps"
    /\ top.i > Len(deps(top.q))
    /\ stack' = SetTop([top EXCEPT !.kwargs = inject_defaults(top.q, @),
                                   !.pc = "check"])
    /\ UNCHANGED <<outcome, call, trace>>

\* an exception leaves every frame: nothing catches it
Raise(exception) ==
    /\ stack' = << >>
    /\ outcome' = [kind |-> "raised", value |-> exception,
                   frame |-> stack[1], raiser |-> top]
    /\ UNCHANGED <<call, trace>>

\* _process_args: missing symbols
RaiseMissingSymbols ==
    /\ Running
    /\ top.pc = "check"
    /\ missing_symbols(top.q, top.kwargs) # {}
    /\ Raise(RuntimeError(missing_symbols(top.q, top.kwargs)))

\* _process_args: no symbol is missing, filter out unneeded
FilterUnneeded ==
    /\ Running
    /\ top.pc = "check"
    /\ missing_symbols(top.q, top.kwargs) = {}
    /\ stack' = SetTop([top EXCEPT !.kwargs = filter_unneeded(top.q, @),
                                   !.pc = "eval"])
    /\ UNCHANGED <<outcome, call, trace>>

\* the rest of __call__ raises
RaiseEvaluate ==
    /\ Running
    /\ top.pc = "eval"
    /\ LET tmp == evaluate(top.q, top.kwargs, top.calc_deps)
       IN IsExc(tmp) /\ Raise(tmp)

\* only the central value of the dependency is bound
PatchedCentral(kwargs, name, tmp) ==
    Bind(kwargs, name, IF IsIterable(tmp) THEN Item(tmp, 0) ELSE tmp)

\* _calc_deps of the calling frame: kwargs[name] = tmp
Patched(kwargs, name, tmp) == Bind(kwargs, name, tmp)

\* a dependency returns to _calc_deps of the calling frame
ReturnToCaller ==
    /\ Len(stack) > 1
    /\ top.pc = "eval"
    /\ LET tmp == evaluate(top.q, top.kwargs, top.calc_deps)
           caller == stack[Len(stack) - 1]
           name == deps(caller.q)[caller.i].name
       IN /\ ~IsExc(tmp)
          /\ stack' = [SubSeq(stack, 1, Len(stack) - 1) EXCEPT ![Len(stack) - 1] =
                          [caller EXCEPT !.kwargs = Patched(@, name, tmp),
                                         !.calc_deps = Bind(@, name, tmp),
                                         !.i = @ + 1]]
    /\ UNCHANGED <<outcome, call, trace>>

\* the caller's call returns
Return ==
    /\ Len(stack) = 1
    /\ top.pc = "eval"
    /\ LET tmp == evaluate(top.q, top.kwargs, top.calc_deps)
       IN /\ ~IsExc(tmp)
          /\ outcome' = [kind |-> "returned", value |-> tmp,
                         frame |-> top, raiser |-> None]
    /\ stack' = << >>
    /\ UNCHANGED <<call, trace>>

Next ==
    \/ \E q \in Quantities : \E kwargs \in Bindings(q) : Call(q, kwargs)
    \/ Forget
    \/ SkipDep
    \/ CallDep
    \/ InjectDefaults
    \/ RaiseMissingSymbols
    \/ FilterUnneeded
    \/ RaiseEvaluate
    \/ ReturnToCaller
    \/ Return

Spec == Init /\ [][Next]_vars

-----------------------------------------------------------------------------
(* Readings of the state used by the properties                            *)

Ended == outcome.kind # "none"
Returned == outcome.kind = "returned"
Raised == outcome.kind = "raised"

\* the frames of the state: those running, the caller's frame as its call
\* ended and the frame that raised
Frames ==
    {stack[i] : i \in 1..Len(stack)}
    \cup (IF Ended THEN {outcome.frame} ELSE {})
    \cup (IF Raised THEN {outcome.raiser} ELSE {})

IsNumber(v) == v.k = "num"
\* (central, error), both numbers
IsUncertain(v) ==
    /\ v.k = "seq"
    /\ Len(v.s) = 2
    /\ v.s[1].k = "num"
    /\ v.s[2].k = "num"
\* (array,): samples without an uncertainty
IsSamples(v) ==
    /\ v.k = "seq"
    /\ Len(v.s) = 1
    /\ v.s[1].k = "seq"
CentralOf(v) == IF IsNumber(v) THEN v.n ELSE v.s[1].n
ErrorOf(v) == v.s[2].n

\* what an uncertainty e of a variable with derivative 1 propagates to
Alone(e) == IF e > 0 THEN Num(e) ELSE Num(0)
\* the square an uncertainty e adds to the sum under the root
Contribution(deriv, e) == IF e > 0 THEN deriv * deriv * e * e ELSE 0

\* the value returned is a pair (result, report)
ReturnsReport ==
    /\ Returned
    /\ outcome.value.k = "seq"
    /\ Len(outcome.value.s) = 2
    /\ outcome.value.s[2].k = "dict"
\* the report returned, empty when none is
ReturnedReport == IF ReturnsReport THEN outcome.value.s[2].d ELSE EmptyDict
\* the result returned, beside the report when there is one
ReturnedResult == IF ReturnsReport THEN outcome.value.s[1] ELSE outcome.value

\* the names bound after the dependencies are resolved and the defaults
\* injected
BoundNames(f) ==
    DOMAIN f.args \cup DOMAIN f.calc_deps \cup DOMAIN defaults(f.q)

\* the expression of q over the raw variables: the name of each dependency
\* replaced by the expression of the dependency
RECURSIVE Unfold(_, _)
Unfold(e, q) ==
    CASE e.op = "var" ->
             IF e.name \in DepNames(q)
             THEN LET dep == CHOOSE i \in 1..Len(deps(q)) : deps(q)[i].name = e.name
                  IN Unfold(expr(deps(q)[dep].sec_val), deps(q)[dep].sec_val)
             ELSE e
      [] e.op = "const" -> e
      [] e.op = "add" -> Add(Unfold(e.l, q), Unfold(e.r, q))
      [] OTHER -> Mul(Unfold(e.l, q), Unfold(e.r, q))
Unfolded(q) == Unfold(expr(q), q)

\* the caller binds exactly the raw variables, each to v with Shape(v)
RawCall(Shape(_)) ==
    /\ Ended
    /\ DOMAIN call.kwargs = free_symbols(Unfolded(call.q))
    /\ \A name \in DOMAIN call.kwargs : Shape(call.kwargs[name])

-----------------------------------------------------------------------------
(* The claims                                                              *)

C2_MissingSymbols ==
    /\ (Raised /\ outcome.value.type = "RuntimeError") =>
          /\ outcome.raiser.i > Len(deps(outcome.raiser.q))
          /\ outcome.value.missing # {}
          /\ outcome.value.missing =
                symbols(outcome.raiser.q) \ BoundNames(outcome.raiser)
    /\ (Raised /\ outcome.value.type # "RuntimeError") =>
          outcome.raiser.pc = "eval"
    /\ \A f \in Frames : f.pc = "eval" =>
          /\ symbols(f.q) \subseteq BoundNames(f)
          /\ DOMAIN f.kwargs = symbols(f.q)
    /\ (Ended /\ call.q = "X" /\ DOMAIN call.kwargs = {"b", "u"}) =>
          /\ Returned
          /\ IsNumber(call.kwargs["b"]) => outcome.value = call.kwargs["b"]
          /\ IsUncertain(call.kwargs["b"]) =>
                outcome.value = Tup(<<Num(CentralOf(call.kwargs["b"])),
                                      Alone(ErrorOf(call.kwargs["b"]))>>)

C2_Witness ==
    /\ Raised
    /\ call.q = "P"
    /\ DOMAIN call.kwargs = {"u"}
    /\ outcome.value = RuntimeError({"a", "b", "c"})

LeadingSlot(v) ==
    IF v.k # "seq" \/ v.t # "tuple" THEN v
    ELSE IF v.s[1].k = "seq" /\ v.s[1].t = "tuple" THEN v.s[1].s[1]
    ELSE v.s[1]

\* C5 as stated: of what a resolved dependency returned, only the leading
\* central-value slot is bound to the name of the dependency, and the
\* uncertainty of the dependency adds nothing to the error of the parent:
\* y(a=a0, b=(b0, sb)) has no error.
C5_OnlyCentralSubstituted ==
    /\ \A f \in Frames : \A name \in DOMAIN f.calc_deps \cap DOMAIN f.kwargs :
          f.kwargs[name] = LeadingSlot(f.calc_deps[name])
    /\ (/\ Ended
        /\ call.q = "Y"
        /\ DOMAIN call.kwargs = {"a", "b"}
        /\ IsNumber(call.kwargs["a"])
        /\ IsUncertain(call.kwargs["b"]))
       => /\ Returned
          /\ ReturnedResult \in
                {Num(call.kwargs["a"].n + CentralOf(call.kwargs["b"])),
                 Tup(<<Num(call.kwargs["a"].n + CentralOf(call.kwargs["b"])),
                       Num(0)>>)}

\* C5 amended: all of what a resolved dependency returned is bound to the
\* name of the dependency; of a tuple (central, error) the parent reads the
\* error as the uncertainty of the variable, which adds to the error of the
\* parent like a supplied one: y(a=a0, b=(b0, sb)) returns
\* ((a0 + b0, sb), {x: (b0, sb)}) for sb > 0, and the error 0 for sb <= 0.
C5_WholeResultSubstituted ==
    /\ \A f \in Frames : \A name \in DOMAIN f.calc_deps \cap DOMAIN f.kwargs :
          f.kwargs[name] = f.calc_deps[name]
    /\ (/\ Ended
        /\ call.q = "Y"
        /\ DOMAIN call.kwargs = {"a", "b"}
        /\ IsNumber(call.kwargs["a"])
        /\ IsUncertain(call.kwargs["b"]))
       => LET b == call.kwargs["b"]
              x == Tup(<<Num(CentralOf(b)), Alone(ErrorOf(b))>>)
          IN /\ Returned
             /\ outcome.value =
                   Tup(<<Tup(<<Num(call.kwargs["a"].n + CentralOf(b)),
                               Alone(ErrorOf(b))>>),
                         Dict([name \in {"x"} |-> x])>>)

C5_Witness ==
    /\ Returned
    /\ call.q = "Y"
    /\ DOMAIN call.kwargs = {"a", "b"}
    /\ IsNumber(call.kwargs["a"])
    /\ outcome.frame.kwargs["x"] = Tup(<<Num(1), Num(1)>>)
    /\ ReturnedResult = Tup(<<Num(call.kwargs["a"].n + 1), Num(1)>>)

\* the caller calls P with a, b and c bound to (central, error) each
CallsP ==
    /\ Ended
    /\ call.q = "P"
    /\ DOMAIN call.kwargs = {"a", "b", "c"}
    /\ \A name \in {"a", "b", "c"} : IsUncertain(call.kwargs[name])

\* C6 as stated: 'a*b + c' called with a=(a0, sa), b=(b0, sb), c=(c0, sc)
\* returns (a0*b0 + c0, sqrt((sa*b0)^2 + (sb*a0)^2 + sc^2)), whatever the
\* sign of sa, sb and sc.
C6_Quadrature ==
    CallsP =>
        LET a == call.kwargs["a"]
            b == call.kwargs["b"]
            c == call.kwargs["c"]
        IN /\ Returned
           /\ outcome.value =
                 Tup(<<Num(CentralOf(a) * CentralOf(b) + CentralOf(c)),
                       Sqrt(ErrorOf(a) * CentralOf(b) * ErrorOf(a) * CentralOf(b)
                            + ErrorOf(b) * CentralOf(a) * ErrorOf(b) * CentralOf(a)
                            + ErrorOf(c) * ErrorOf(c))>>)

\* C6 amended: the same for sa, sb, sc >= 0; an uncertainty below zero adds
\* nothing to the sum under the root.
C6_QuadratureOfPositive ==
    CallsP =>
        LET a == call.kwargs["a"]
            b == call.kwargs["b"]
            c == call.kwargs["c"]
        IN /\ Returned
           /\ outcome.value =
                 Tup(<<Num(CentralOf(a) * CentralOf(b) + CentralOf(c)),
                       Sqrt(Contribution(CentralOf(b), ErrorOf(a))
                            + Contribution(CentralOf(a), ErrorOf(b))
                            + Contribution(1, ErrorOf(c)))>>)

C6_Witness ==
    /\ CallsP
    /\ \A name \in {"a", "b", "c"} : call.kwargs[name] = Tup(<<Num(1), Num(1)>>)
    /\ outcome.value = Tup(<<Num(2), Root(3)>>)

\* C7: the defaults are injected after the dependencies are resolved, for
\* the names with a default that are not bound then: a binding of the
\* caller or the result of a dependency is kept; an injected (central,
\* error) adds its error like a supplied one: D(b=b0) is (1 + b0, 2).
C7_DefaultsInjected ==
    /\ \A f \in Frames :
          /\ f.pc = "deps" =>
                DOMAIN f.kwargs = DOMAIN f.args \cup DOMAIN f.calc_deps
          /\ f.pc = "check" =>
                /\ DOMAIN f.kwargs = BoundNames(f)
                /\ \A name \in DOMAIN f.kwargs :
                      f.kwargs[name] =
                         IF name \in DOMAIN f.args THEN f.args[name]
                         ELSE IF name \in DOMAIN f.calc_deps THEN f.calc_deps[name]
                         ELSE defaults(f.q)[name]
    /\ (/\ Ended
        /\ call.q = "D"
        /\ DOMAIN call.kwargs = {"b"}
        /\ IsNumber(call.kwargs["b"]))
       => /\ Returned
          /\ outcome.value = Tup(<<Num(1 + call.kwargs["b"].n), Num(2)>>)

C7_Witness ==
    /\ Returned
    /\ call.q = "D"
    /\ call.kwargs = [name \in {"b"} |-> Num(1)]
    /\ outcome.value = Tup(<<Num(2), Num(2)>>)

IsTuple(v) == v.k = "seq" /\ v.t = "tuple"
IsArray(v) == v.k = "seq"
\* the central value of what is returned
CentralOut == IF IsTuple(ReturnedResult) THEN ReturnedResult.s[1]
              ELSE ReturnedResult

\* the lengths of the arrays of samples the caller binds
SampleLengths ==
    {Len(call.kwargs[name].s[1].s) :
        name \in {n \in DOMAIN call.kwargs : IsSamples(call.kwargs[n])}}
\* the bindings of the caller at sample i
SampleAt(i) ==
    [name \in DOMAIN call.kwargs |->
        IF IsSamples(call.kwargs[name]) THEN call.kwargs[name].s[1].s[i]
        ELSE call.kwargs[name]]
\* the central values the caller binds
Centrals ==
    [name \in DOMAIN call.kwargs |-> Num(CentralOf(call.kwargs[name]))]

\* C8: with arrays of N samples each bound to some variables and numbers to
\* the others, the central value is an array of length N, entry i the
\* expression at sample i of each array and at the numbers; with numbers
\* only it is the number the expression evaluates to.
C8_VectorCentral ==
    (/\ RawCall(LAMBDA v : IsNumber(v) \/ IsSamples(v))
     /\ Cardinality(SampleLengths) <= 1)
    => /\ Returned
       /\ CentralOut =
             IF SampleLengths = {}
             THEN Num(Eval(Unfolded(call.q), call.kwargs))
             ELSE Array([i \in 1..Max(SampleLengths) |->
                            Num(Eval(Unfolded(call.q), SampleAt(i)))])

\* component k of a binding is an array
ArrayComponent(v, k) == IsArray(v) /\ Len(v.s) >= k /\ IsArray(v.s[k])
\* every slot of an assembled result has the shape of its central value
SameShape(result) ==
    \A k \in 2..Len(result.s) :
        IF IsArray(result.s[1])
        THEN IsArray(result.s[k]) /\ Len(result.s[k].s) = Len(result.s[1].s)
        ELSE ~IsArray(result.s[k])

\* C9 as stated: in an assembled result (central, error_1, .., error_k)
\* every error is a number when the central value is a number and an array
\* of the length of the central value when it is an array.
C9_SameShape ==
    (Returned /\ IsTuple(ReturnedResult)) => SameShape(ReturnedResult)

\* C9 amended: every error is an array of the length of the central value
\* when the central value is an array; when it is a number, error_k is a
\* number unless component k of a binding is an array, and then an array
\* of the length of that component.
C9_ShapeOfErrors ==
    (Returned /\ IsTuple(ReturnedResult)) =>
        LET result == ReturnedResult
            kwargs == outcome.frame.kwargs
        IN \A k \in 2..Len(result.s) :
              LET vectors == {name \in DOMAIN kwargs :
                                 ArrayComponent(kwargs[name], k)}
              IN IF IsArray(result.s[1])
                 THEN /\ IsArray(result.s[k])
                      /\ Len(result.s[k].s) = Len(result.s[1].s)
                 ELSE IF vectors = {} THEN ~IsArray(result.s[k])
                 ELSE /\ IsArray(result.s[k])
                      /\ \A name \in vectors :
                            Len(result.s[k].s) = Len(kwargs[name].s[k].s)

C9_Witness ==
    /\ Returned
    /\ call.q = "X"
    /\ call.kwargs = [name \in {"b"} |-> Tup(<<Up(MaxLen), Num(1)>>)]
    /\ IsTuple(outcome.value)
    /\ Len(outcome.value.s) = 2
    /\ IsArray(outcome.value.s[1])
    /\ IsArray(outcome.value.s[2])
    /\ Len(outcome.value.s[2].s) = MaxLen

\* the names of the dependencies the frame id resolved, in the order of
\* the calls
Resolved(id) ==
    LET calls == SelectSeq(trace, LAMBDA event : event.caller = id)
    IN [i \in 1..Len(calls) |-> calls[i].name]
\* the names the frame id had bound when it made its i-th call
BoundAt(id, i) == DOMAIN call.kwargs \cup {Resolved(id)[j] : j \in 1..(i - 1)}

\* C10: with only the raw variables bound, to numbers or to (central,
\* error), the call of an instance whose dependencies have dependencies
\* returns, its central value the expression with every dependency replaced
\* by its central value; the dependencies are called in the order of their
\* declaration, each with the bindings of the caller and the results of the
\* dependencies called before it.
C10_ChainCompletes ==
    RawCall(LAMBDA v : IsNumber(v) \/ IsUncertain(v)) =>
        /\ Returned
        /\ CentralOut = Num(Eval(Unfolded(call.q), Centrals))
        /\ Resolved(1) = [i \in 1..Len(deps(call.q)) |-> deps(call.q)[i].name]
        /\ LET calls == SelectSeq(trace, LAMBDA event : event.caller = 1)
           IN \A i \in 1..Len(calls) : DOMAIN calls[i].kwargs = BoundAt(1, i)

====
